---- MODULE Spec2Model ----
(***************************************************************************)
(* Model of kumareport.py: analyze_heartbeats (normalisation, stable sort, *)
(* run-length scan, latency collection), calculate_summary_stats (three    *)
(* trailing windows) and the per-monitor loop of main().                   *)
(*                                                                         *)
(* Time.  An aware datetime is modelled by the instant it denotes, an      *)
(* integer number of days.  Comparison and subtraction of aware datetimes  *)
(* in Python are done on the instant, so the target zone (and the UTC      *)
(* fallback for an unknown zone) does not influence any value below.  A    *)
(* timedelta is an integer number of days; quotients (avg_duration,        *)
(* percentage, avg_ping) are kept exact as [num, den] fractions.           *)
(*                                                                         *)
(* Optional values.  Python's None is the empty tuple, a present value x   *)
(* is the one-element tuple <<x>>.                                         *)
(***************************************************************************)
EXTENDS Integers, Sequences, FiniteSets, TLC

VARIABLES
    pc,                 \* position: "start" | "analyzed" | "summarized" | "loop" | "done" | "failed"
    clock,              \* the wall clock read by datetime.datetime.now
    heartbeats,         \* the batch handed to analyze_heartbeats
    now_aware,          \* instant at which analyze_heartbeats ran (line 170 reads it)
    now,                \* instant read by calculate_summary_stats (line 185)
    analysis_results,   \* value returned by analyze_heartbeats
    summary_stats,      \* value returned by calculate_summary_stats
    selected_monitors,  \* main: the monitors chosen for the report
    all_monitor_data,   \* main: per-monitor results collected so far
    report              \* main: content handed to the report generator

vars == <<pc, clock, heartbeats, now_aware, now, analysis_results,
          summary_stats, selected_monitors, all_monitor_data, report>>

-----------------------------------------------------------------------------
(* Bounds of the model *)

MaxBeats == 4        \* longest batch of the run-detection family
MaxPingBeats == 2    \* longest batch of the parsing / latency family
MaxWinBeats == 3     \* longest batch of the window family
MaxMonitors == 2     \* most monitors selected in main
MaxMainBeats == 2    \* longest batch a monitor returns in main

Clock0 == 40                 \* the instant of the first clock reading
ClockSteps == {-1, 0, 1}     \* wall-clock movement between two readings

-----------------------------------------------------------------------------
(* Optional values *)

None == <<>>
Some(x) == <<x>>
Val(o) == o[1]

RECURSIVE SumSeq(_)
SumSeq(s) == IF s = <<>> THEN 0 ELSE Head(s) + SumSeq(Tail(s))

RECURSIVE MaxSeq(_)
MaxSeq(s) ==
    IF Len(s) = 1 THEN s[1]
    ELSE LET m == MaxSeq(Tail(s)) IN IF s[1] >= m THEN s[1] ELSE m

RECURSIVE SeqsUpTo(_, _)
SeqsUpTo(S, n) ==
    IF n = 0 THEN { <<>> }
    ELSE LET shorter == SeqsUpTo(S, n - 1)
         IN  shorter \cup { Append(s, x) : s \in { t \in shorter : Len(t) = n - 1 }, x \in S }

-----------------------------------------------------------------------------
(* Raw timestamps.  A string is the list of its '.'-separated segments;    *)
(* a segment is either well-formed '%Y-%m-%d %H:%M:%S' text denoting the   *)
(* UTC instant t, or any other text (wf = FALSE).                          *)

GoodSeg(t) == [wf |-> TRUE, t |-> t]
JunkSeg == [wf |-> FALSE, t |-> 0]

StrTime(t) == [kind |-> "str", segs |-> <<GoodSeg(t)>>]
StrTimeFrac(t) == [kind |-> "str", segs |-> <<GoodSeg(t), JunkSeg>>]
StrJunk == [kind |-> "str", segs |-> <<JunkSeg>>]
StrDotGood(t) == [kind |-> "str", segs |-> <<JunkSeg, GoodSeg(t)>>]
NumTime(t) == [kind |-> "num", value |-> t]
OtherTime == [kind |-> "other"]

(* datetime.datetime.strptime(text, '%Y-%m-%d %H:%M:%S'): the instant, or  *)
(* None where Python raises ValueError.                                    *)
strptime(seg) == IF seg.wf THEN Some(seg.t) ELSE None

to_datetime_bad(time_val) ==
    IF time_val.kind = "str" THEN strptime(time_val.segs[1])
    ELSE IF time_val.kind = "num" THEN Some(time_val.value)
    ELSE Some(0)

to_datetime(time_val) ==
    IF time_val.kind = "str" THEN strptime(time_val.segs[1])
    ELSE IF time_val.kind = "num" THEN Some(time_val.value)
    ELSE None

-----------------------------------------------------------------------------
(* analyze_heartbeats *)

KeyError == [exception |-> "KeyError"]
Raised(r) == "exception" \in DOMAIN r

(* lines 146-151: True when building processed_beats raises, i.e. a beat   *)
(* with a parsed time has no 'status' key.                                 *)
build_raises(hb) ==
    \E i \in 1..Len(hb) :
        /\ to_datetime(hb[i].time) # None
        /\ "status" \notin DOMAIN hb[i]

RECURSIVE processed_beats(_)
processed_beats(hb) ==
    IF hb = <<>> THEN <<>>
    ELSE LET dt == to_datetime(Head(hb).time)
         IN  IF dt # None
             THEN <<[datetime |-> Val(dt), status |-> Head(hb).status]>>
                    \o processed_beats(Tail(hb))
             ELSE processed_beats(Tail(hb))

ping_kept_bad(beat) == beat.ping # None /\ Val(beat.ping) # 0

ping_kept(beat) == beat.ping # None

RECURSIVE ping_data_of(_)
ping_data_of(hb) ==
    IF hb = <<>> THEN <<>>
    ELSE LET dt == to_datetime(Head(hb).time)
         IN  IF dt # None /\ ping_kept(Head(hb))
             THEN <<[datetime |-> Val(dt), ping |-> Val(Head(hb).ping)]>>
                    \o ping_data_of(Tail(hb))
             ELSE ping_data_of(Tail(hb))

(* sorted(..., key=datetime): Python's sort is stable.  insert puts x      *)
(* behind every element whose key is not larger.                           *)
RECURSIVE insert_bad(_, _)
insert_bad(s, x) ==
    IF s = <<>> THEN <<x>>
    ELSE IF Head(s).datetime < x.datetime
         THEN <<Head(s)>> \o insert_bad(Tail(s), x)
         ELSE <<x>> \o s

RECURSIVE insert(_, _)
insert(s, x) ==
    IF s = <<>> THEN <<x>>
    ELSE IF Head(s).datetime <= x.datetime
         THEN <<Head(s)>> \o insert(Tail(s), x)
         ELSE <<x>> \o s

RECURSIVE sorted_stable(_)
sorted_stable(s) ==
    IF s = <<>> THEN <<>>
    ELSE insert(sorted_stable(SubSeq(s, 1, Len(s) - 1)), s[Len(s)])

sorted_bad(s) == s

sorted(s) == sorted_stable(s)

(* One iteration of the scan loop, lines 158-167.  st is the pair of       *)
(* locals [incidents, current_downtime_start_dt].                          *)
scan_step_bad(st, beat) ==
    LET is_down == beat.status = 0
    IN  IF is_down /\ st.current_downtime_start_dt = None
        THEN [st EXCEPT !.current_downtime_start_dt = Some(beat.datetime)]
        ELSE IF ~is_down /\ st.current_downtime_start_dt # None
        THEN [st EXCEPT !.incidents = Append(@,
                    [start |-> Val(st.current_downtime_start_dt),
                     duration |-> beat.datetime - Val(st.current_downtime_start_dt)])]
        ELSE st

scan_step(st, beat) ==
    LET is_down == beat.status = 0
    IN  IF is_down /\ st.current_downtime_start_dt = None
        THEN [st EXCEPT !.current_downtime_start_dt = Some(beat.datetime)]
        ELSE IF ~is_down /\ st.current_downtime_start_dt # None
        THEN [incidents |-> Append(st.incidents,
                    [start |-> Val(st.current_downtime_start_dt),
                     duration |-> beat.datetime - Val(st.current_downtime_start_dt)]),
              current_downtime_start_dt |-> None]
        ELSE st

RECURSIVE scan(_, _)
scan(beats, st) ==
    IF beats = <<>> THEN st ELSE scan(Tail(beats), scan_step(st, Head(beats)))

(* lines 169-171: the run still open after the scan is closed against the  *)
(* clock and flagged.                                                      *)
close_open_run(st, clk) ==
    IF st.current_downtime_start_dt # None
    THEN Append(st.incidents,
                [start |-> Val(st.current_downtime_start_dt),
                 duration |-> clk - Val(st.current_downtime_start_dt),
                 ongoing |-> TRUE])
    ELSE st.incidents

analyze_heartbeats(hb, clk) ==
    IF build_raises(hb) THEN KeyError
    ELSE LET beats == sorted(processed_beats(hb))
             st == scan(beats, [incidents |-> <<>>, current_downtime_start_dt |-> None])
         IN  [downtime_incidents |-> close_open_run(st, clk),
              ping_data |-> ping_data_of(hb)]

(* incident.get("ongoing", False), as every consumer reads the flag *)
ongoing(inc) == IF "ongoing" \in DOMAIN inc THEN inc.ongoing ELSE FALSE

-----------------------------------------------------------------------------
(* calculate_summary_stats *)

periods == [Daily |-> 1, Weekly |-> 7, Monthly |-> 30]

period_start_bad(clk, delta) == clk - delta - 1

period_start(clk, delta) == clk - delta

incident_in_period_bad(inc, ps) == inc.start + inc.duration >= ps

incident_in_period(inc, ps) == inc.start >= ps

period_incidents(incidents, ps) ==
    SelectSeq(incidents, LAMBDA inc : incident_in_period(inc, ps))

ZeroDuration == [num |-> 0, den |-> 1]

avg_duration_bad(total_duration, count) ==
    IF count > 0 THEN [num |-> total_duration, den |-> count] ELSE None

avg_duration(total_duration, count) ==
    IF count > 0 THEN [num |-> total_duration, den |-> count] ELSE ZeroDuration

percentage(total_duration, delta) ==
    IF delta > 0 THEN [num |-> total_duration * 100, den |-> delta]
    ELSE [num |-> 0, den |-> 1]

RECURSIVE durations(_)
durations(incs) ==
    IF incs = <<>> THEN <<>> ELSE <<Head(incs).duration>> \o durations(Tail(incs))

RECURSIVE period_pings(_, _)
period_pings(ping_data, ps) ==
    IF ping_data = <<>> THEN <<>>
    ELSE IF Head(ping_data).datetime >= ps
         THEN <<Head(ping_data).ping>> \o period_pings(Tail(ping_data), ps)
         ELSE period_pings(Tail(ping_data), ps)

window_stats(results, clk, delta) ==
    LET ps == period_start(clk, delta)
        incs == period_incidents(results.downtime_incidents, ps)
        count == Len(incs)
        total_duration == SumSeq(durations(incs))
        pings == period_pings(results.ping_data, ps)
    IN  [count |-> count,
         avg_duration |-> avg_duration(total_duration, count),
         percentage |-> percentage(total_duration, delta),
         avg_ping |-> IF pings # <<>>
                      THEN Some([num |-> SumSeq(pings), den |-> Len(pings)])
                      ELSE None,
         max_ping |-> IF pings # <<>> THEN Some(MaxSeq(pings)) ELSE None]

calculate_summary_stats(results, clk) ==
    [name \in DOMAIN periods |-> window_stats(results, clk, periods[name])]

-----------------------------------------------------------------------------
(* Input families *)

Beat(t, s, p) == [time |-> t, status |-> s, ping |-> p]

\* run detection: four instants around the clock (one of them ahead of it)
ScanBeats ==
    { Beat(StrTime(t), s, None) : t \in (Clock0 - 2)..(Clock0 + 1), s \in {0, 1} }

\* parsing and latency: every timestamp form, statuses 0 and 2, pings 0 and 7
PingBeats ==
    { Beat(t, sp[1], sp[2]) :
        t \in {StrTime(Clock0 - 1), StrTimeFrac(Clock0), NumTime(Clock0 - 2),
               StrJunk, StrDotGood(Clock0), OtherTime},
        sp \in { <<0, None>>, <<0, Some(0)>>, <<2, Some(7)>> } }
      \cup { [time |-> StrJunk, ping |-> Some(7)] }     \* no 'status' key

\* windows: instants on both sides of the three window starts, and latency
\* samples at the oldest and the newest of them
WinBeats ==
    { Beat(StrTime(t), s, None) :
        t \in {Clock0 - 31, Clock0 - 30, Clock0 - 7, Clock0 - 1, Clock0},
        s \in {0, 1} }
      \cup { Beat(StrTime(t), 1, Some(7)) : t \in {Clock0 - 30, Clock0} }

\* main: a monitor's batch may hold a beat without a 'status' key
MainBeats ==
    { Beat(StrTime(Clock0 - 1), s, None) : s \in {0, 1} }
      \cup { [time |-> StrTime(Clock0 - 1), ping |-> None],
             [time |-> StrJunk, ping |-> None] }

MainBatches == SeqsUpTo(MainBeats, MaxMainBeats)

Batches ==
    SeqsUpTo(ScanBeats, MaxBeats) \cup SeqsUpTo(PingBeats, MaxPingBeats)
        \cup SeqsUpTo(WinBeats, MaxWinBeats)

NoResult == [pending |-> TRUE]

-----------------------------------------------------------------------------
(* The two functions applied to one batch *)

Init ==
    /\ pc = "start"
    /\ clock = Clock0
    /\ heartbeats \in Batches
    /\ now_aware = Clock0
    /\ now = Clock0
    /\ analysis_results = NoResult
    /\ summary_stats = NoResult
    /\ selected_monitors = <<>>
    /\ all_monitor_data = <<>>
    /\ report = None

Analyze ==
    /\ pc = "start"
    /\ now_aware' = clock
    /\ analysis_results' = analyze_heartbeats(heartbeats, clock)
    /\ pc' = "analyzed"
    /\ UNCHANGED <<clock, heartbeats, now, summary_stats, selected_monitors,
                   all_monitor_data, report>>

Summarize ==
    /\ pc = "analyzed"
    /\ ~Raised(analysis_results)
    /\ \E step \in ClockSteps :
         /\ clock' = clock + step
         /\ now' = clock + step
         /\ summary_stats' = calculate_summary_stats(analysis_results, clock + step)
    /\ pc' = "summarized"
    /\ UNCHANGED <<heartbeats, now_aware, analysis_results, selected_monitors,
                   all_monitor_data, report>>

Next == Analyze \/ Summarize

Spec == Init /\ [][Next]_vars

-----------------------------------------------------------------------------
(* main(), lines 413-443: the loop over the selected monitors inside one   *)
(* try block, the report generation behind it, and the except clauses.     *)

InitMain ==
    /\ pc = "loop"
    /\ clock = Clock0
    /\ heartbeats = <<>>
    /\ now_aware = Clock0
    /\ now = Clock0
    /\ analysis_results = NoResult
    /\ summary_stats = NoResult
    /\ selected_monitors \in { [i \in 1..n |-> i] : n \in 1..MaxMonitors }
    /\ all_monitor_data = <<>>
    /\ report = None

(* One iteration of the for loop, lines 415-428.  An exception raised by   *)
(* the analysis leaves the loop and the try block: control is in the       *)
(* except clause of line 442 and main returns.                             *)
ProcessMonitor ==
    /\ pc = "loop"
    /\ Len(all_monitor_data) < Len(selected_monitors)
    /\ \E hb \in MainBatches, step \in ClockSteps :
         LET monitor == selected_monitors[Len(all_monitor_data) + 1]
             results == analyze_heartbeats(hb, clock)
         IN  /\ clock + step \in (Clock0 - 1)..(Clock0 + 1)
             /\ heartbeats' = hb
             /\ now_aware' = clock
             /\ analysis_results' = results
             /\ IF Raised(results)
                THEN /\ pc' = "failed"
                     /\ UNCHANGED <<clock, now, summary_stats, all_monitor_data>>
                ELSE /\ clock' = clock + step
                     /\ now' = clock + step
                     /\ summary_stats' = calculate_summary_stats(results, clock + step)
                     /\ all_monitor_data' = Append(all_monitor_data,
                            [monitor_name |-> monitor,
                             summary_stats |-> summary_stats',
                             downtime_incidents |-> results.downtime_incidents])
                     /\ pc' = "loop"
    /\ UNCHANGED <<selected_monitors, report>>

(* lines 430-438, reached when the loop ran to its end *)
GenerateReport ==
    /\ pc = "loop"
    /\ Len(all_monitor_data) = Len(selected_monitors)
    /\ report' = Some(all_monitor_data)
    /\ pc' = "done"
    /\ UNCHANGED <<clock, heartbeats, now_aware, now, analysis_results,
                   summary_stats, selected_monitors, all_monitor_data>>

NextMain == ProcessMonitor \/ GenerateReport

SpecMain == InitMain /\ [][NextMain]_vars

-----------------------------------------------------------------------------
(* Vocabulary of the properties.  It is stated on the input batch and the  *)
(* returned values, without the operators of the model above (except       *)
(* to_datetime where a property speaks of "parsed" beats).                 *)

Analyzed == pc = "analyzed" /\ ~Raised(analysis_results)
Summarized == pc = "summarized"

Incidents == analysis_results.downtime_incidents
Samples == analysis_results.ping_data

\* indices of the beats of the batch whose timestamp parses
ParsedIdx == { i \in 1..Len(heartbeats) : to_datetime(heartbeats[i].time) # None }
TimeOf(i) == Val(to_datetime(heartbeats[i].time))

\* chronological position of a parsed beat: by instant, ties by input position
Before(j, i) == TimeOf(j) < TimeOf(i) \/ (TimeOf(j) = TimeOf(i) /\ j <= i)
Rank(i) == Cardinality({ j \in ParsedIdx : Before(j, i) })
Chron(k) == CHOOSE i \in ParsedIdx : Rank(i) = k
NumParsed == Cardinality(ParsedIdx)
ChronStatus(k) == heartbeats[Chron(k)].status
ChronTime(k) == TimeOf(Chron(k))

\* a timestamp the program cannot parse: a string whose text before the
\* first '.' is not YYYY-MM-DD HH:MM:SS, or a value neither string nor number
Unparseable(time_val) ==
    \/ time_val.kind = "other"
    \/ time_val.kind = "str" /\ ~time_val.segs[1].wf

RemoveAt(s, i) == SubSeq(s, 1, i - 1) \o SubSeq(s, i + 1, Len(s))

InputOutOfOrder ==
    \E i, j \in ParsedIdx : i < j /\ TimeOf(i) > TimeOf(j)

-----------------------------------------------------------------------------
\* C1: the incidents returned by analyze_heartbeats are sorted ascending by
\* start and consecutive incidents do not overlap: the earlier one's
\* start + duration is not later than the next one's start.
C1_SortedDisjoint ==
    Analyzed =>
        \A i \in 1..(Len(Incidents) - 1) :
            /\ Incidents[i].start <= Incidents[i + 1].start
            /\ Incidents[i].start + Incidents[i].duration <= Incidents[i + 1].start

\* reached: an out-of-order batch with two beats at one instant, three incidents
C1_Witness ==
    /\ Analyzed
    /\ InputOutOfOrder
    /\ \E i, j \in ParsedIdx : i # j /\ TimeOf(i) = TimeOf(j)
    /\ Len(Incidents) >= 2
    /\ \E i \in 1..(Len(Incidents) - 1) :
          Incidents[i].start + Incidents[i].duration = Incidents[i + 1].start

\* C2: at most one incident is ongoing, an ongoing incident is the last of
\* the list, and there is one exactly when the chronologically last parsed
\* beat has status 0.
C2_OneOngoingLast ==
    Analyzed =>
        /\ \A i \in 1..Len(Incidents) : ongoing(Incidents[i]) => i = Len(Incidents)
        /\ (\E i \in 1..Len(Incidents) : ongoing(Incidents[i]))
             <=> (NumParsed > 0 /\ ChronStatus(NumParsed) = 0)

\* reached: closed incidents followed by an ongoing one, from an unsorted batch
C2_Witness ==
    /\ Analyzed
    /\ InputOutOfOrder
    /\ Len(Incidents) >= 2
    /\ ongoing(Incidents[Len(Incidents)])
    /\ ~ongoing(Incidents[1])

\* the chronological positions at which a run of status-0 beats begins
RunStarts ==
    { k \in 1..NumParsed :
        ChronStatus(k) = 0 /\ (k = 1 \/ ChronStatus(k - 1) # 0) }
RunNumber(k) == Cardinality({ r \in RunStarts : r <= k })
UpsAfter(k) == { u \in (k + 1)..NumParsed : ChronStatus(u) # 0 }
FirstUpAfter(k) == CHOOSE u \in UpsAfter(k) : \A v \in UpsAfter(k) : u <= v

\* C3: one incident per maximal run of status-0 beats of the time-sorted
\* sequence; it starts at the run's first beat, and when an up beat follows
\* its duration is that beat's time minus the start and it is not ongoing.
C3_OneIncidentPerRun ==
    Analyzed =>
        /\ Len(Incidents) = Cardinality(RunStarts)
        /\ \A k \in RunStarts :
              LET inc == Incidents[RunNumber(k)]
              IN  /\ inc.start = ChronTime(k)
                  /\ UpsAfter(k) # {} =>
                        /\ inc.duration = ChronTime(FirstUpAfter(k)) - inc.start
                        /\ ~ongoing(inc)

\* reached: statuses 0,1,0,1 at T0<T1<T2<T3 give [T0,T1) and [T2,T3)
C3_Witness ==
    /\ Analyzed
    /\ NumParsed = 4
    /\ \A k \in 1..3 : ChronTime(k) < ChronTime(k + 1)
    /\ <<ChronStatus(1), ChronStatus(2), ChronStatus(3), ChronStatus(4)>> = <<0, 1, 0, 1>>
    /\ Incidents = << [start |-> ChronTime(1), duration |-> ChronTime(2) - ChronTime(1)],
                      [start |-> ChronTime(3), duration |-> ChronTime(4) - ChronTime(3)] >>

\* reached: repeated down beats inside a run and repeated up beats outside
C3_WitnessRepeats ==
    /\ Analyzed
    /\ NumParsed = 4
    /\ <<ChronStatus(1), ChronStatus(2), ChronStatus(3), ChronStatus(4)>> = <<0, 0, 1, 1>>
    /\ Len(Incidents) = 1

\* C4: every returned incident has duration >= 0, the ongoing one included,
\* wherever the beat timestamps lie relative to the current time.
C4_DurationNonNegative ==
    Analyzed => \A i \in 1..Len(Incidents) : Incidents[i].duration >= 0

\* the beats that yield a latency sample, and their position in input order
PingIdx == { i \in ParsedIdx : heartbeats[i].ping # None }
PingPos(i) == Cardinality({ j \in PingIdx : j <= i })
SampleOf(i) == [datetime |-> TimeOf(i), ping |-> Val(heartbeats[i].ping)]
Ascending(samples) ==
    \A k \in 1..(Len(samples) - 1) : samples[k].datetime <= samples[k + 1].datetime

\* C5 as stated: one sample per parsed beat with a non-null ping whatever
\* its status, and the samples are in ascending datetime order even for a
\* batch that is not in time order.
C5_ChronologicalSamples ==
    Analyzed =>
        /\ Len(Samples) = Cardinality(PingIdx)
        /\ \A i \in PingIdx : \E k \in 1..Len(Samples) : Samples[k] = SampleOf(i)
        /\ Ascending(Samples)

\* C5 amended: one sample per parsed beat with a non-null ping whatever its
\* status, in the order of the beats in the input batch; the samples are
\* ascending in datetime when the parsed beats of the batch are.
C5_SamplesInInputOrder ==
    Analyzed =>
        /\ Len(Samples) = Cardinality(PingIdx)
        /\ \A i \in PingIdx : Samples[PingPos(i)] = SampleOf(i)
        /\ ~InputOutOfOrder => Ascending(Samples)

\* reached: an unsorted batch, a down beat and a ping of 0 among the samples,
\* samples returned in input order (descending here)
C5_Witness ==
    /\ Analyzed
    /\ Len(Samples) = 2
    /\ Samples[1].datetime > Samples[2].datetime
    /\ \E i \in PingIdx : heartbeats[i].status = 0 /\ heartbeats[i].ping = Some(0)

\* C6: a beat with an unparseable timestamp is dropped without raising: the
\* result equals the result for the batch without that beat, whatever the
\* status or ping of the dropped beat.
C6_UnparseableDropped ==
    pc = "analyzed" =>
        /\ ~Raised(analysis_results)
        /\ \A i \in 1..Len(heartbeats) :
              Unparseable(heartbeats[i].time) =>
                  analysis_results = analyze_heartbeats(RemoveAt(heartbeats, i), now_aware)

\* reached: a non-string non-number timestamp on a down beat with a ping,
\* next to a parsed beat, and a malformed string on a beat without status
C6_Witness ==
    /\ Analyzed
    /\ \E i, j \in 1..Len(heartbeats) :
          /\ heartbeats[i].time.kind = "other"
          /\ heartbeats[i].status = 0
          /\ heartbeats[i].ping # None
          /\ j \in ParsedIdx
    /\ Len(Incidents) + Len(Samples) > 0

C6_WitnessNoStatus ==
    /\ Analyzed
    /\ \E i \in 1..Len(heartbeats) :
          /\ "status" \notin DOMAIN heartbeats[i]
          /\ Unparseable(heartbeats[i].time)

\* incidents a window counts under either reading of the inclusion rule
WindowNames == {"Daily", "Weekly", "Monthly"}
WindowDays(w) == CASE w = "Daily" -> 1 [] w = "Weekly" -> 7 [] w = "Monthly" -> 30
StartedInside(w) ==
    { i \in 1..Len(Incidents) : Incidents[i].start >= now - WindowDays(w) }
OpenFromBefore(w) ==
    { i \in 1..Len(Incidents) :
        ongoing(Incidents[i]) /\ Incidents[i].start < now - WindowDays(w) }
RECURSIVE TotalOf(_)
TotalOf(I) ==
    IF I = {} THEN 0
    ELSE LET i == CHOOSE x \in I : TRUE IN Incidents[i].duration + TotalOf(I \ {i})

\* C7 as stated: an incident that began before period_start and is still
\* ongoing has its full duration counted in the window's count, total
\* downtime and percentage.
C7_OpenFromBeforeCounted ==
    Summarized =>
        \A w \in WindowNames :
            LET counted == StartedInside(w) \cup OpenFromBefore(w)
            IN  /\ summary_stats[w].count = Cardinality(counted)
                /\ summary_stats[w].percentage.num = 100 * TotalOf(counted)

\* C7 amended: a window counts exactly the incidents whose start is at or
\* after period_start, each with its full unclipped duration; an ongoing
\* incident that began before period_start adds nothing to the window's
\* count, total downtime or percentage.
C7_OnlyStartedInsideCounted ==
    Summarized =>
        \A w \in WindowNames :
            /\ summary_stats[w].count = Cardinality(StartedInside(w))
            /\ summary_stats[w].percentage.num = 100 * TotalOf(StartedInside(w))
            /\ summary_stats[w].percentage.den = WindowDays(w)
            /\ summary_stats[w].count > 0 =>
                  summary_stats[w].avg_duration =
                      [num |-> TotalOf(StartedInside(w)), den |-> summary_stats[w].count]

\* reached: an ongoing incident older than the Daily window, absent from the
\* Daily numbers and present, with a duration longer than a day, in Weekly
C7_Witness ==
    /\ Summarized
    /\ OpenFromBefore("Daily") # {}
    /\ summary_stats["Daily"].count = 0
    /\ summary_stats["Daily"].percentage.num = 0
    /\ summary_stats["Weekly"].count = 1
    /\ summary_stats["Weekly"].percentage.num > 100 * WindowDays("Daily")

\* C9: a window without qualifying incident reports count 0, percentage 0
\* and a zero avg_duration (not None); a window without qualifying latency
\* sample reports avg_ping and max_ping as None.
C9_EmptyWindows ==
    Summarized =>
        \A w \in WindowNames :
            /\ StartedInside(w) = {} =>
                  /\ summary_stats[w].count = 0
                  /\ summary_stats[w].percentage.num = 0
                  /\ summary_stats[w].percentage.den > 0
                  /\ summary_stats[w].avg_duration # None
                  /\ summary_stats[w].avg_duration.num = 0
                  /\ summary_stats[w].avg_duration.den > 0
            /\ (\A k \in 1..Len(Samples) : Samples[k].datetime < now - WindowDays(w)) =>
                  /\ summary_stats[w].avg_ping = None
                  /\ summary_stats[w].max_ping = None

\* reached: incidents and samples exist but none qualifies for Daily, while
\* Monthly has both
C9_Witness ==
    /\ Summarized
    /\ Len(Incidents) > 0
    /\ Len(Samples) > 0
    /\ summary_stats["Daily"].count = 0
    /\ summary_stats["Daily"].avg_ping = None
    /\ summary_stats["Monthly"].count > 0
    /\ summary_stats["Monthly"].max_ping # None

\* reached: the empty batch
C9_WitnessEmpty ==
    /\ Summarized
    /\ heartbeats = <<>>
    /\ \A w \in WindowNames : summary_stats[w].count = 0 /\ summary_stats[w].max_ping = None

NoFutureBeat == \A i \in ParsedIdx : TimeOf(i) <= now_aware

\* C10: when no parsed beat is later than the instant read by
\* analyze_heartbeats and calculate_summary_stats reads an instant that is
\* not earlier, every window's percentage lies between 0 and 100.
C10_PercentageWithin100 ==
    (Summarized /\ NoFutureBeat /\ now >= now_aware) =>
        \A w \in WindowNames :
            /\ summary_stats[w].percentage.den > 0
            /\ 0 <= summary_stats[w].percentage.num
            /\ summary_stats[w].percentage.num <= 100 * summary_stats[w].percentage.den

\* reached: the Daily window is down for its whole length (exactly 100)
C10_Witness ==
    /\ Summarized
    /\ NoFutureBeat
    /\ now >= now_aware
    /\ summary_stats["Daily"].count > 0
    /\ summary_stats["Daily"].percentage.num = 100 * summary_stats["Daily"].percentage.den

\* reached: with a beat ahead of the clock a window reports more than 100
C10_WitnessFuture ==
    /\ Summarized
    /\ ~NoFutureBeat
    /\ \E w \in WindowNames :
          summary_stats[w].percentage.num > 100 * summary_stats[w].percentage.den

-----------------------------------------------------------------------------
\* C8: an exception raised while one monitor is analysed stops the report
\* for that monitor only: when main has ended, every other selected monitor
\* has been processed and its results are in the report.
C8_FailureIsolated ==
    pc \in {"done", "failed"} =>
        /\ report # None
        /\ \A j \in 1..Len(selected_monitors) :
              (pc = "failed" /\ j = Len(all_monitor_data) + 1)
              \/ \E k \in 1..Len(Val(report)) :
                    Val(report)[k].monitor_name = selected_monitors[j]

====
